---- MODULE Spec2Model ----
(***************************************************************************)
(* Browser-side support layer: the JSON request gateway (requestJson and   *)
(* the api catalog) and the localStorage-backed authentication accessor    *)
(* (getAuth / setAuth / clearAuth / requireAuth).                          *)
(*                                                                         *)
(* JavaScript values are records tagged by t.  Texts (response bodies,     *)
(* request bodies, stored items) are sequences of lexical tokens, so that  *)
(* JSON.parse and JSON.stringify are real conversions between texts and    *)
(* values.                                                                 *)
(***************************************************************************)
EXTENDS Integers, Sequences, FiniteSets, TLC

\* ------------------------------------------------------------------ bounds
MaxTextLen == 2   \* response bodies: every token sequence up to this length
MaxDepth == 1     \* nesting depth of the values handed to setAuth / the api
MaxCalls == 2     \* api invocations per behaviour

\* ------------------------------------------------------- JavaScript values
Undefined == [t |-> "undefined"]
Null == [t |-> "null"]
NaN == [t |-> "nan"]
Bool(b) == [t |-> "boolean", b |-> b]
Num(n) == [t |-> "number", n |-> n]
Str(s) == [t |-> "string", s |-> s]
\* an object is its own properties in insertion order: <<key, value>> pairs
Obj(f) == [t |-> "object", f |-> f]
Arr(e) == [t |-> "array", e |-> e]
\* a string value given by its characters (the `text` of a response)
Txt(x) == [t |-> "text", x |-> x]

\* ToBoolean, as used by `x ? a : b`, `!x` and `x && y`
Truthy(v) ==
  CASE v.t = "undefined" -> FALSE
    [] v.t = "null" -> FALSE
    [] v.t = "nan" -> FALSE
    [] v.t = "boolean" -> v.b
    [] v.t = "number" -> v.n # 0
    [] v.t = "string" -> v.s # ""
    [] v.t = "text" -> v.x # <<>>
    [] OTHER -> TRUE

\* property read v.key (undefined on a primitive or when the key is absent)
RECURSIVE Lookup(_, _, _)
Lookup(f, key, i) ==
  IF i = 0 THEN Undefined
  ELSE IF f[i][1] = key THEN f[i][2] ELSE Lookup(f, key, i - 1)

GetProp(v, key) == IF v.t = "object" THEN Lookup(v.f, key, Len(v.f)) ELSE Undefined

HasProp(v, key) == v.t = "object" /\ \E i \in 1..Len(v.f) : v.f[i][1] = key

\* property write during parsing: a repeated key keeps its place, last value wins
SetProp(f, key, val) ==
  IF \E i \in 1..Len(f) : f[i][1] = key
  THEN [i \in 1..Len(f) |-> IF f[i][1] = key THEN <<key, val>> ELSE f[i]]
  ELSE Append(f, <<key, val>>)

\* String(v), as applied by `new Error(msg)` to its message
RECURSIVE JsToString(_)
RECURSIVE JoinElems(_, _)
JoinElems(e, i) ==
  IF i > Len(e) THEN ""
  ELSE (IF e[i].t \in {"undefined", "null"} THEN "" ELSE JsToString(e[i]))
       \o (IF i < Len(e) THEN "," ELSE "")
       \o JoinElems(e, i + 1)

JsToString(v) ==
  CASE v.t = "undefined" -> "undefined"
    [] v.t = "null" -> "null"
    [] v.t = "nan" -> "NaN"
    [] v.t = "boolean" -> IF v.b THEN "true" ELSE "false"
    [] v.t = "number" -> ToString(v.n)
    [] v.t = "string" -> v.s
    [] v.t = "array" -> JoinElems(v.e, 1)
    [] v.t = "object" -> "[object Object]"

\* ------------------------------------------------------------------ texts
\* tokens: punctuation, string literal, number literal, literal word,
\* whitespace, and any other run of characters
P(c) == [k |-> "p", c |-> c]
S(s) == [k |-> "s", s |-> s]
N(n) == [k |-> "n", n |-> n]
L(w) == [k |-> "l", w |-> w]
W == [k |-> "w"]
G(c) == [k |-> "g", g |-> c]

EmptyText == <<>>

\* ------------------------------------------------------------- JSON.parse
Fail == [ok |-> FALSE, val |-> Undefined, next |-> 0]
Got(v, n) == [ok |-> TRUE, val |-> v, next |-> n]

RECURSIVE SkipWs(_, _)
SkipWs(text, i) ==
  IF i <= Len(text) /\ text[i].k = "w" THEN SkipWs(text, i + 1) ELSE i

IsP(text, i, c) == i <= Len(text) /\ text[i] = P(c)


RECURSIVE ParseValue(_, _)
RECURSIVE ParseMembers(_, _, _)
RECURSIVE ParseElements(_, _, _)

ParseMembers(text, i0, acc) ==
  LET i == SkipWs(text, i0) IN
  IF ~(i <= Len(text) /\ text[i].k = "s") THEN Fail
  ELSE LET c == SkipWs(text, i + 1) IN
    IF ~IsP(text, c, ":") THEN Fail
    ELSE LET r == ParseValue(text, c + 1) IN
      IF ~r.ok THEN Fail
      ELSE LET j == SkipWs(text, r.next)
               acc2 == SetProp(acc, text[i].s, r.val) IN
        IF IsP(text, j, ",") THEN ParseMembers(text, j + 1, acc2)
        ELSE IF IsP(text, j, "}") THEN Got(Obj(acc2), j + 1)
        ELSE Fail

ParseElements(text, i0, acc) ==
  LET r == ParseValue(text, i0) IN
  IF ~r.ok THEN Fail
  ELSE LET j == SkipWs(text, r.next)
           acc2 == Append(acc, r.val) IN
    IF IsP(text, j, ",") THEN ParseElements(text, j + 1, acc2)
    ELSE IF IsP(text, j, "]") THEN Got(Arr(acc2), j + 1)
    ELSE Fail

ParseValue(text, i0) ==
  LET i == SkipWs(text, i0) IN
  IF i > Len(text) THEN Fail
  ELSE LET tok == text[i] IN
    CASE tok.k = "l" ->
           Got(IF tok.w = "null" THEN Null ELSE Bool(tok.w = "true"), i + 1)
      [] tok.k = "n" -> Got(Num(tok.n), i + 1)
      [] tok.k = "s" -> Got(Str(tok.s), i + 1)
      [] tok = P("{") ->
           LET j == SkipWs(text, i + 1) IN
           IF IsP(text, j, "}") THEN Got(Obj(<<>>), j + 1)
           ELSE ParseMembers(text, j, <<>>)
      [] tok = P("[") ->
           LET j == SkipWs(text, i + 1) IN
           IF IsP(text, j, "]") THEN Got(Arr(<<>>), j + 1)
           ELSE ParseElements(text, j, <<>>)
      [] OTHER -> Fail

\* JSON.parse(text): [ok |-> FALSE] stands for the SyntaxError it throws
JsonParse(text) ==
  LET r == ParseValue(text, 1) IN
  IF r.ok /\ SkipWs(text, r.next) > Len(text) THEN [ok |-> TRUE, val |-> r.val]
  ELSE [ok |-> FALSE, val |-> Undefined]

\* --------------------------------------------------------- JSON.stringify
RECURSIVE Serialize(_)
RECURSIVE SerializeMembers(_, _, _)
RECURSIVE SerializeElements(_, _)

\* own properties whose value is undefined are left out
SerializeMembers(f, i, first) ==
  IF i > Len(f) THEN <<>>
  ELSE IF f[i][2].t = "undefined" THEN SerializeMembers(f, i + 1, first)
  ELSE (IF first THEN <<>> ELSE <<P(",")>>)
       \o <<S(f[i][1]), P(":")>> \o Serialize(f[i][2])
       \o SerializeMembers(f, i + 1, FALSE)

\* array elements that are undefined are written as null
SerializeElements(e, i) ==
  IF i > Len(e) THEN <<>>
  ELSE (IF i = 1 THEN <<>> ELSE <<P(",")>>)
       \o (IF e[i].t = "undefined" THEN <<L("null")>> ELSE Serialize(e[i]))
       \o SerializeElements(e, i + 1)

Serialize(v) ==
  CASE v.t = "null" -> <<L("null")>>
    [] v.t = "nan" -> <<L("null")>>
    [] v.t = "boolean" -> <<L(IF v.b THEN "true" ELSE "false")>>
    [] v.t = "number" -> <<N(v.n)>>
    [] v.t = "string" -> <<S(v.s)>>
    [] v.t = "array" -> <<P("[")>> \o SerializeElements(v.e, 1) \o <<P("]")>>
    [] v.t = "object" -> <<P("{")>> \o SerializeMembers(v.f, 1, TRUE) \o <<P("}")>>
    [] OTHER -> <<>>

\* JSON.stringify(v): a text, or undefined when v is undefined
JsonStringify(v) ==
  IF v.t = "undefined" THEN [def |-> FALSE, text |-> <<>>]
  ELSE [def |-> TRUE, text |-> Serialize(v)]

\* the values a caller may hand over, nested to depth d
Scalars ==
  {Undefined, Null, NaN, Bool(TRUE), Bool(FALSE), Num(0), Num(7), Str(""),
   Str("teacher")}

RECURSIVE Values(_)
Values(d) ==
  IF d = 0 THEN Scalars
  ELSE LET sub == Values(d - 1) IN
    Scalars \cup {Obj(<<>>), Arr(<<>>)}
      \cup {Obj(<< <<"role", v>> >>) : v \in sub}
      \cup {Arr(<<v>>) : v \in sub}

VARIABLES
  storage,   \* localStorage: key -> item
  href,      \* window.location.href
  last,      \* the latest auth call and the call before it
  cleared,   \* clearAuth has run and no setAuth since
  pc,        \* where the current requestJson call stands
  call,      \* the api operation invoked and its arguments
  req,       \* the request handed to fetch
  res,       \* the response: status, and body text once read
  outcome,   \* how the call settled: the value returned or the error thrown
  nCalls,    \* api operations invoked so far
  nSent,     \* requests handed to fetch so far
  nParse     \* JSON.parse attempts of the current call

authVars == <<storage, href, last, cleared>>
gwVars == <<pc, call, req, res, outcome, nCalls, nSent, nParse>>
vars == <<storage, href, last, cleared, pc, call, req, res, outcome, nCalls, nSent, nParse>>

\* ----------------------------------------------------------- localStorage
AUTH_KEY == "smart_platform_auth"
Keys == {AUTH_KEY, "theme"}

NoItem == [has |-> FALSE, text |-> <<>>]
Item(text) == [has |-> TRUE, text |-> text]

\* localStorage.getItem(key): the stored string, or null
getItem(st, key) == IF st[key].has THEN Txt(st[key].text) ELSE Null
\* localStorage.setItem(key, value): value is stored as a string, and
\* String(undefined) is the nine characters `undefined`
setItem(st, key, str) ==
  [st EXCEPT ![key] = Item(IF str.def THEN str.text ELSE <<G("undefined")>>)]
\* localStorage.removeItem(key)
removeItem(st, key) == [st EXCEPT ![key] = NoItem]

\* ------------------------------------------------------------- auth.js
\* getAuth(): the value it returns in storage st
getAuth(st) ==
  LET raw == getItem(st, AUTH_KEY) IN
  IF Truthy(raw)
  THEN LET r == JsonParse(raw.x) IN IF r.ok THEN r.val ELSE Null
  ELSE Null

\* variant: the item is written under another key
setAuth_OtherKey(st, auth) == setItem(st, "theme", JsonStringify(auth))

\* setAuth(auth): the storage it leaves
setAuth(st, auth) == setItem(st, AUTH_KEY, JsonStringify(auth))

\* variant: another key is removed
clearAuth_OtherKey(st) == removeItem(st, "theme")

\* clearAuth(): the storage it leaves
clearAuth(st) == removeItem(st, AUTH_KEY)

\* variant: allowAnonymous is ignored
requireAuth_NoAnonymous(st, allowAnonymous) ==
  LET auth == getAuth(st) IN
  IF ~Truthy(auth)
  THEN [redirect |-> TRUE, ret |-> Null]
  ELSE [redirect |-> FALSE, ret |-> auth]

\* requireAuth({ allowAnonymous }): whether it redirects, and what it returns
requireAuth(st, allowAnonymous) ==
  LET auth == getAuth(st) IN
  IF ~Truthy(auth) /\ ~allowAnonymous
  THEN [redirect |-> TRUE, ret |-> Null]
  ELSE [redirect |-> FALSE, ret |-> auth]

\* the record of a call: its name, argument and result, whether it assigned
\* location.href, the storage it started from, and the call it followed
Entry(op, arg, ret, redirected) ==
  [op |-> op, arg |-> arg, ret |-> ret, redirected |-> redirected,
   stored |-> storage, after |-> last.op, afterArg |-> last.arg]

NoCall ==
  [op |-> "none", arg |-> Undefined, ret |-> Undefined, redirected |-> FALSE,
   stored |-> [k \in Keys |-> NoItem], after |-> "none", afterArg |-> Undefined]

TeacherAuth == Obj(<< <<"role", Str("teacher")>>, <<"token", Str("t0k")>> >>)
\* an auth record one of whose fields was never filled in
PartialAuth == Obj(<< <<"role", Str("student")>>, <<"token", Undefined>> >>)

\* what setAuth may be handed
AuthValues == Values(MaxDepth) \cup {TeacherAuth, PartialAuth}

\* what the auth item may hold when the page loads
InitialItems ==
  {NoItem, Item(EmptyText), Item(<<G("undefined")>>), Item(<<L("null")>>),
   Item(<<N(0)>>), Item(<<L("false")>>), Item(<<P("{")>>),
   Item(Serialize(TeacherAuth))}

SetAuth(auth) ==
  /\ storage' = setAuth(storage, auth)
  /\ last' = (Entry("setAuth", auth, Undefined, FALSE))
  /\ cleared' = FALSE
  /\ UNCHANGED <<href, gwVars>>

ClearAuth ==
  /\ storage' = clearAuth(storage)
  /\ last' = (Entry("clearAuth", Undefined, Undefined, FALSE))
  /\ cleared' = TRUE
  /\ UNCHANGED <<href, gwVars>>

GetAuth ==
  /\ last' = (Entry("getAuth", Undefined, getAuth(storage), FALSE))
  /\ UNCHANGED <<storage, href, cleared, gwVars>>

RequireAuth(allowAnonymous) ==
  LET r == requireAuth(storage, allowAnonymous) IN
  /\ href' = IF r.redirect THEN "/login" ELSE href
  /\ last' = (Entry("requireAuth", Bool(allowAnonymous), r.ret, r.redirect))
  /\ UNCHANGED <<storage, cleared, gwVars>>

NoRequest ==
  [path |-> <<>>, method |-> "", headers |-> <<>>, body |-> [def |-> FALSE, text |-> <<>>]]
NoResponse == [status |-> 0, text |-> <<>>]
Pending ==
  [kind |-> "none", name |-> "", message |-> "", status |-> Undefined,
   data |-> Undefined, value |-> Undefined]

\* no api call has been made
GwIdle ==
  /\ pc = "idle"
  /\ call = [op |-> "none", id |-> Undefined, payload |-> Undefined]
  /\ req = NoRequest
  /\ res = NoResponse
  /\ outcome = Pending
  /\ nCalls = 0 /\ nSent = 0 /\ nParse = 0

InitAuth ==
  /\ storage \in [Keys -> {NoItem}] \cup
       {[k \in Keys |-> IF k = AUTH_KEY THEN it ELSE Item(<<S("dark")>>)] :
          it \in InitialItems}
  /\ href = "/dashboard"
  /\ last = NoCall
  /\ cleared = FALSE
  /\ GwIdle

NextAuth ==
  \/ \E auth \in AuthValues : SetAuth(auth)
  \/ ClearAuth
  \/ GetAuth
  \/ \E allowAnonymous \in BOOLEAN : RequireAuth(allowAnonymous)

SpecAuth == InitAuth /\ [][NextAuth]_vars

\* ------------------------------------------------- properties of auth.js
\* a value JSON represents faithfully: no undefined and no NaN anywhere in it
RECURSIVE JsonRepresentable(_)
JsonRepresentable(v) ==
  CASE v.t \in {"undefined", "nan"} -> FALSE
    [] v.t = "object" -> \A i \in 1..Len(v.f) : JsonRepresentable(v.f[i][2])
    [] v.t = "array" -> \A i \in 1..Len(v.e) : JsonRepresentable(v.e[i])
    [] OTHER -> TRUE

SetThenGet == last.op = "getAuth" /\ last.after = "setAuth"

\* C4 as stated: a getAuth() that directly follows setAuth(a) returns a value
\* equal to a, for every a.
C4_RoundTripAnyValue == SetThenGet => last.ret = last.afterArg

\* C4 amended: a getAuth() that directly follows setAuth(a) returns a value
\* equal to a whenever a is a value JSON represents faithfully (no undefined
\* and no NaN in it).
C4_RoundTripJsonValue ==
  SetThenGet /\ JsonRepresentable(last.afterArg) => last.ret = last.afterArg

C4_Witness == SetThenGet /\ last.afterArg = TeacherAuth /\ last.ret = TeacherAuth

\* C5: a getAuth() that runs after clearAuth() with no setAuth in between
\* returns null.
C5_ClearThenGetNull == last.op = "getAuth" /\ cleared => last.ret = Null

C5_Witness ==
  /\ last.op = "getAuth" /\ cleared /\ last.ret = Null
  /\ last.after \in {"getAuth", "requireAuth"}

\* no auth record: the item is absent, empty or unparseable, or parses to a
\* falsy value
NoRecord(item) ==
  \/ ~item.has
  \/ item.text = EmptyText
  \/ ~JsonParse(item.text).ok
  \/ JsonParse(item.text).val \in {Null, Bool(FALSE), Num(0), Str("")}

\* C10: requireAuth redirects to /login and returns null exactly when there
\* is no auth record and allowAnonymous is false; otherwise it does not
\* redirect and returns what getAuth() returns; the stored item is untouched.
C10_RequireAuth ==
  last.op = "requireAuth" =>
    /\ last.redirected <=> (NoRecord(last.stored[AUTH_KEY]) /\ ~last.arg.b)
    /\ last.redirected => last.ret = Null /\ href = "/login"
    /\ ~last.redirected => last.ret = getAuth(last.stored)
    /\ storage = last.stored

C10_Witness ==
  /\ last.op = "requireAuth" /\ last.redirected /\ href = "/login"
  /\ last.stored[AUTH_KEY] = Item(<<N(0)>>)

\* ------------------------------------------------------ request gateway
\* encodeURIComponent(s), on the strings the ids below turn into: "/" is the
\* only character among them outside the unreserved set
EncodeURIComponent(s) == IF s = "x/y" THEN "x%2Fy" ELSE s

Post(body) == [method |-> Str("POST"), body |-> body]
Put(body) == [method |-> Str("PUT"), body |-> body]
Delete(body) == [method |-> Str("DELETE"), body |-> body]
\* no options argument: the default {} leaves method and body undefined
NoOpts == [method |-> Undefined, body |-> Undefined]

Ops ==
  {"register", "login", "getChallenges", "getChallenge", "addChallenge",
   "updateChallenge", "deleteChallenge", "submit", "getSubmissions",
   "teacherListSubmissions", "teacherUpdateSubmission", "addTestCase",
   "deleteTestCase", "addSolutionTemplate", "deleteSolutionTemplate",
   "exportChallenge", "copyChallenge", "importChallenge"}

\* variant: the delete operations are sent as POST
Api_DeleteAsPost(op, id, payload) ==
  LET i == JsToString(id) IN
  CASE op = "register" -> [path |-> <<"/register">>, opts |-> Post(payload)]
    [] op = "login" -> [path |-> <<"/login">>, opts |-> Post(payload)]
    [] op = "getChallenges" -> [path |-> <<"/challenges">>, opts |-> NoOpts]
    [] op = "getChallenge" -> [path |-> <<"/challenges/", i>>, opts |-> NoOpts]
    [] op = "addChallenge" -> [path |-> <<"/add_challenge">>, opts |-> Post(payload)]
    [] op = "updateChallenge" -> [path |-> <<"/challenges/", i>>, opts |-> Put(payload)]
    [] op = "deleteChallenge" -> [path |-> <<"/challenges/", i>>, opts |-> Post(payload)]
    [] op = "submit" -> [path |-> <<"/submit">>, opts |-> Post(payload)]
    [] op = "getSubmissions" ->
         [path |-> <<"/submissions/", EncodeURIComponent(i)>>, opts |-> NoOpts]
    [] op = "teacherListSubmissions" ->
         [path |-> <<"/teacher/submissions">>, opts |-> Post(payload)]
    [] op = "teacherUpdateSubmission" ->
         [path |-> <<"/teacher/submissions/", EncodeURIComponent(i)>>,
          opts |-> Put(payload)]
    [] op = "addTestCase" ->
         [path |-> <<"/challenges/", i, "/add_test_case">>, opts |-> Post(payload)]
    [] op = "deleteTestCase" -> [path |-> <<"/test_cases/", i>>, opts |-> Post(payload)]
    [] op = "addSolutionTemplate" ->
         [path |-> <<"/challenges/", i, "/add_solution_template">>,
          opts |-> Post(payload)]
    [] op = "deleteSolutionTemplate" ->
         [path |-> <<"/solution_templates/", i>>, opts |-> Post(payload)]
    [] op = "exportChallenge" ->
         [path |-> <<"/challenges/", i, "/export">>, opts |-> NoOpts]
    [] op = "copyChallenge" ->
         [path |-> <<"/challenges/", i, "/copy">>, opts |-> Post(payload)]
    [] op = "importChallenge" -> [path |-> <<"/import_challenge">>, opts |-> Post(payload)]

\* the api catalog: the arguments each operation passes to requestJson.  A
\* path is the pieces of its template literal, substitutions included.
Api(op, id, payload) ==
  LET i == JsToString(id) IN
  CASE op = "register" -> [path |-> <<"/register">>, opts |-> Post(payload)]
    [] op = "login" -> [path |-> <<"/login">>, opts |-> Post(payload)]
    [] op = "getChallenges" -> [path |-> <<"/challenges">>, opts |-> NoOpts]
    [] op = "getChallenge" -> [path |-> <<"/challenges/", i>>, opts |-> NoOpts]
    [] op = "addChallenge" -> [path |-> <<"/add_challenge">>, opts |-> Post(payload)]
    [] op = "updateChallenge" -> [path |-> <<"/challenges/", i>>, opts |-> Put(payload)]
    [] op = "deleteChallenge" -> [path |-> <<"/challenges/", i>>, opts |-> Delete(payload)]
    [] op = "submit" -> [path |-> <<"/submit">>, opts |-> Post(payload)]
    [] op = "getSubmissions" ->
         [path |-> <<"/submissions/", EncodeURIComponent(i)>>, opts |-> NoOpts]
    [] op = "teacherListSubmissions" ->
         [path |-> <<"/teacher/submissions">>, opts |-> Post(payload)]
    [] op = "teacherUpdateSubmission" ->
         [path |-> <<"/teacher/submissions/", EncodeURIComponent(i)>>,
          opts |-> Put(payload)]
    [] op = "addTestCase" ->
         [path |-> <<"/challenges/", i, "/add_test_case">>, opts |-> Post(payload)]
    [] op = "deleteTestCase" -> [path |-> <<"/test_cases/", i>>, opts |-> Delete(payload)]
    [] op = "addSolutionTemplate" ->
         [path |-> <<"/challenges/", i, "/add_solution_template">>,
          opts |-> Post(payload)]
    [] op = "deleteSolutionTemplate" ->
         [path |-> <<"/solution_templates/", i>>, opts |-> Delete(payload)]
    [] op = "exportChallenge" ->
         [path |-> <<"/challenges/", i, "/export">>, opts |-> NoOpts]
    [] op = "copyChallenge" ->
         [path |-> <<"/challenges/", i, "/copy">>, opts |-> Post(payload)]
    [] op = "importChallenge" -> [path |-> <<"/import_challenge">>, opts |-> Post(payload)]

\* the operations that take an id (or user name), and those that take a payload
WithId ==
  {"getChallenge", "updateChallenge", "deleteChallenge", "getSubmissions",
   "teacherUpdateSubmission", "addTestCase", "deleteTestCase",
   "addSolutionTemplate", "deleteSolutionTemplate", "exportChallenge",
   "copyChallenge"}
WithPayload ==
  Ops \ {"getChallenges", "getChallenge", "getSubmissions", "exportChallenge"}

\* variant: the body is serialized without the `body ?` test
FetchInit_AlwaysBody(path, opts) ==
  [path |-> path,
   method |-> IF opts.method = Undefined THEN "GET" ELSE opts.method.s,
   headers |-> << <<"Content-Type", "application/json">> >>,
   body |-> JsonStringify(opts.body)]

\* requestJson, up to the fetch: the request it hands over
FetchInit(path, opts) ==
  [path |-> path,
   method |-> IF opts.method = Undefined THEN "GET" ELSE opts.method.s,
   headers |-> << <<"Content-Type", "application/json">> >>,
   body |-> IF Truthy(opts.body) THEN JsonStringify(opts.body)
            ELSE [def |-> FALSE, text |-> <<>>]]

\* variant: an unparseable text decodes to {}
Decode_NoFallback(text) ==
  IF text # EmptyText
  THEN LET r == JsonParse(text) IN
    [data |-> IF r.ok THEN r.val ELSE Obj(<<>>), parses |-> 1]
  ELSE [data |-> Obj(<<>>), parses |-> 0]

\* variant: the empty text is parsed too
Decode_AlwaysParse(text) ==
  LET r == JsonParse(text) IN
  [data |-> IF r.ok THEN r.val ELSE Obj(<< <<"raw", Txt(text)>> >>), parses |-> 1]

\* requestJson, the decoding of the body text: the decoded value, and how
\* many times JSON.parse was called
Decode(text) ==
  IF text # EmptyText
  THEN LET r == JsonParse(text) IN
    [data |-> IF r.ok THEN r.val ELSE Obj(<< <<"raw", Txt(text)>> >>), parses |-> 1]
  ELSE [data |-> Obj(<<>>), parses |-> 0]

\* res.ok
Ok(status) == status \in 200..299

Returned(v) == [Pending EXCEPT !.kind = "returned", !.value = v]
Thrown(name, message, status, data) ==
  [Pending EXCEPT !.kind = "thrown", !.name = name, !.message = message,
                  !.status = status, !.data = data]

\* variant: the error field is used whenever it is present
Settle_AnyErrorField(status, data) ==
  IF ~Ok(status)
  THEN Thrown("Error",
              IF HasProp(data, "error") THEN JsToString(GetProp(data, "error"))
              ELSE "HTTP " \o ToString(status),
              Num(status), data)
  ELSE Returned(data)

\* variant: res.ok is not consulted
Settle_ThrowAlways(status, data) ==
  Thrown("Error",
         IF Truthy(data) /\ Truthy(GetProp(data, "error"))
         THEN JsToString(GetProp(data, "error"))
         ELSE "HTTP " \o ToString(status),
         Num(status), data)

\* variant: err.status is not set
Settle_NoStatus(status, data) ==
  IF ~Ok(status)
  THEN Thrown("Error",
              IF Truthy(data) /\ Truthy(GetProp(data, "error"))
              THEN JsToString(GetProp(data, "error"))
              ELSE "HTTP " \o ToString(status),
              Undefined, data)
  ELSE Returned(data)

\* requestJson, after decoding: throw on a response that is not ok, else
\* return the decoded body
Settle(status, data) ==
  IF ~Ok(status)
  THEN Thrown("Error",
              IF Truthy(data) /\ Truthy(GetProp(data, "error"))
              THEN JsToString(GetProp(data, "error"))
              ELSE "HTTP " \o ToString(status),
              Num(status), data)
  ELSE Returned(data)

\* an api operation is invoked: requestJson builds the request and calls
\* fetch, then waits
Invoke(op, id, payload) ==
  /\ pc \in {"idle", "settled"}
  /\ nCalls < MaxCalls
  /\ call' = [op |-> op, id |-> id, payload |-> payload]
  /\ LET a == Api(op, id, payload) IN req' = FetchInit(a.path, a.opts)
  /\ nCalls' = nCalls + 1
  /\ nSent' = nSent + 1
  /\ nParse' = 0
  /\ res' = NoResponse
  /\ outcome' = Pending
  /\ pc' = "fetching"
  /\ UNCHANGED authVars

\* fetch resolves with a response; requestJson goes on to read its text
Respond(status) ==
  /\ pc = "fetching"
  /\ res' = [status |-> status, text |-> <<>>]
  /\ pc' = "reading"
  /\ UNCHANGED <<call, req, outcome, nCalls, nSent, nParse, authVars>>

\* fetch rejects: the await rethrows fetch's TypeError out of requestJson
FetchReject ==
  /\ pc = "fetching"
  /\ outcome' = Thrown("TypeError", "Failed to fetch", Undefined, Undefined)
  /\ pc' = "settled"
  /\ UNCHANGED <<call, req, res, nCalls, nSent, nParse, authVars>>

\* the body text arrives; requestJson decodes it and returns or throws
ReadBody(text) ==
  /\ pc = "reading"
  /\ res' = [res EXCEPT !.text = text]
  /\ LET d == Decode(text) IN
       /\ nParse' = d.parses
       /\ outcome' = Settle(res.status, d.data)
  /\ pc' = "settled"
  /\ UNCHANGED <<call, req, nCalls, nSent, authVars>>

\* ---------------------------------------------------------------- inputs
Statuses == {200, 299, 300, 500}

Ids == {Num(7), Str("x/y")}

LoginPayload == Obj(<< <<"username", Str("amal")>>, <<"password", Str("pw")>> >>)
\* Undefined: the argument is left out
Payloads == {Undefined, Null, Num(0), Str(""), LoginPayload, PartialAuth}

IdsOf(op) == IF op \in WithId THEN Ids ELSE {Undefined}
PayloadsOf(op) == IF op \in WithPayload THEN Payloads ELSE {Undefined}

Alphabet == {P("{"), P("}"), P(":"), S("error"), S(""), N(0), L("null"), W, G("<")}

RECURSIVE TextsUpTo(_)
TextsUpTo(n) ==
  IF n = 0 THEN {<<>>}
  ELSE LET shorter == TextsUpTo(n - 1) IN
    shorter \cup {Append(text, tok) : text \in shorter, tok \in Alphabet}

ErrorBody(tokens) == <<P("{"), S("error"), P(":")>> \o tokens \o <<P("}")>>

LongerBodies ==
  {ErrorBody(<<S("boom")>>), ErrorBody(<<S("")>>), ErrorBody(<<N(0)>>),
   ErrorBody(<<N(42)>>), ErrorBody(<<L("null")>>), ErrorBody(<<L("false")>>),
   ErrorBody(<<L("true")>>), ErrorBody(<<P("{"), P("}")>>),
   ErrorBody(<<P("["), S("a"), P(","), S("b"), P("]")>>),
   ErrorBody(<<S("first"), P(","), S("error"), P(":"), S("second")>>),
   <<P("{"), S("error"), P(":"), S("boom")>>,
   <<P("{"), S("id"), P(":"), N(7), P("}")>>,
   <<P("["), P("{"), S("id"), P(":"), N(7), P("}"), P("]")>>,
   <<P("["), P("]")>>,
   <<G("<"), G("html"), G(">")>>}

Bodies == TextsUpTo(MaxTextLen) \cup LongerBodies

SampleBodies ==
  {EmptyText, ErrorBody(<<S("boom")>>), <<G("<"), G("html"), G(">")>>,
   <<P("{"), S("id"), P(":"), N(7), P("}")>>}

SampleCalls ==
  {[op |-> "getChallenges", id |-> Undefined, payload |-> Undefined],
   [op |-> "login", id |-> Undefined, payload |-> LoginPayload],
   [op |-> "deleteChallenge", id |-> Num(7), payload |-> Undefined]}

InitGateway ==
  /\ storage = [k \in Keys |-> NoItem]
  /\ href = "/dashboard"
  /\ last = NoCall
  /\ cleared = FALSE
  /\ GwIdle

\* every response to a few calls
NextGateway ==
  \/ \E c \in SampleCalls : Invoke(c.op, c.id, c.payload)
  \/ \E status \in Statuses : Respond(status)
  \/ FetchReject
  \/ \E text \in Bodies : ReadBody(text)

SpecGateway == InitGateway /\ [][NextGateway]_vars

\* every call of the catalog, with a few responses
NextApi ==
  \/ \E op \in Ops : \E id \in IdsOf(op) : \E payload \in PayloadsOf(op) :
       Invoke(op, id, payload)
  \/ \E status \in Statuses : Respond(status)
  \/ FetchReject
  \/ \E text \in SampleBodies : ReadBody(text)

SpecApi == InitGateway /\ [][NextApi]_vars

\* ------------------------------------------- properties of requestJson
\* the call has settled on a response (not on a rejected fetch)
Responded == pc = "settled" /\ res.status # 0

Failed == Responded /\ ~Ok(res.status)

\* the decoded body as the caller gets it: returned, or attached to the error
Delivered == IF outcome.kind = "returned" THEN outcome.value ELSE outcome.data

HttpMessage == "HTTP " \o ToString(res.status)

\* C1 as stated: on a non-2xx response the error message is the `error`
\* field of the decoded body whenever the body has that field, and
\* `HTTP <status>` otherwise.
C1_MessageFromAnyErrorField ==
  Failed =>
    /\ outcome.kind = "thrown"
    /\ outcome.message =
         IF HasProp(outcome.data, "error")
         THEN JsToString(GetProp(outcome.data, "error"))
         ELSE HttpMessage

\* C1 amended: on a non-2xx response the error message is the string form of
\* the `error` field of the decoded body when that field is present and
\* truthy, and `HTTP <status>` otherwise (field absent, or "", 0, false or
\* null; body empty, unparseable or not an object).
C1_MessageFromTruthyErrorField ==
  Failed =>
    /\ outcome.kind = "thrown"
    /\ outcome.message =
         IF /\ HasProp(outcome.data, "error")
            /\ GetProp(outcome.data, "error") \notin {Null, Bool(FALSE), Num(0), Str("")}
         THEN JsToString(GetProp(outcome.data, "error"))
         ELSE HttpMessage

C1_Witness ==
  Failed /\ res.text = ErrorBody(<<S("boom")>>) /\ outcome.message = "boom"

\* C2: a body text that is non-empty and not valid JSON decodes to
\* { raw: text }, returned on a 2xx response and attached to the thrown
\* error otherwise.
C2_InvalidJsonBecomesRaw ==
  Responded /\ res.text # EmptyText /\ ~JsonParse(res.text).ok =>
    /\ outcome.kind = (IF Ok(res.status) THEN "returned" ELSE "thrown")
    /\ Delivered = Obj(<< <<"raw", Txt(res.text)>> >>)

C2_Witness ==
  /\ Responded /\ res.status = 200 /\ res.text = <<G("<"), G("html"), G(">")>>
  /\ outcome.value = Obj(<< <<"raw", Txt(res.text)>> >>)

\* C3: an empty body text decodes to {} (returned on 2xx, attached as data
\* otherwise) and JSON.parse is not called.
C3_EmptyBodyIsEmptyObject ==
  Responded /\ res.text = EmptyText =>
    /\ outcome.kind = (IF Ok(res.status) THEN "returned" ELSE "thrown")
    /\ Delivered = Obj(<<>>)
    /\ nParse = 0

C3_Witness ==
  Responded /\ res.text = EmptyText /\ res.status = 500 /\ outcome.data = Obj(<<>>)

\* the decoding the gateway is specified to apply to a body text
DecodedBody(text) ==
  IF text = EmptyText THEN Obj(<<>>)
  ELSE IF JsonParse(text).ok THEN JsonParse(text).val
  ELSE Obj(<< <<"raw", Txt(text)>> >>)

\* C6: the error thrown for a non-2xx response carries the numeric status in
\* `status` and the decoded body in `data`; a 2xx response does not throw and
\* returns the decoded body.
C6_ErrorCarriesStatusAndData ==
  Responded =>
    IF Ok(res.status)
    THEN outcome.kind = "returned" /\ outcome.value = DecodedBody(res.text)
    ELSE /\ outcome.kind = "thrown"
         /\ outcome.status = Num(res.status)
         /\ outcome.data = DecodedBody(res.text)

C6_Witness ==
  /\ Responded /\ res.status = 300 /\ res.text = <<P("{"), S("error")>>
  /\ outcome.kind = "thrown" /\ outcome.status = Num(300)
  /\ outcome.data = Obj(<< <<"raw", Txt(res.text)>> >>)

\* C7 as stated: every failed call, a rejected fetch included, throws the
\* same error kind, carrying a status and a decoded body.
C7_EveryFailureCarriesStatus ==
  pc = "settled" /\ outcome.kind = "thrown" =>
    /\ outcome.name = "Error"
    /\ outcome.status # Undefined
    /\ outcome.data # Undefined

\* C7 amended: every non-2xx response throws the same generic Error carrying
\* the status and the decoded body; a rejected fetch surfaces as fetch's own
\* rejection, which carries neither.
C7_ResponseFailuresCarryStatus ==
  pc = "settled" /\ outcome.kind = "thrown" =>
    IF res.status # 0
    THEN /\ outcome.name = "Error"
         /\ outcome.status = Num(res.status)
         /\ outcome.data # Undefined
    ELSE outcome.status = Undefined /\ outcome.data = Undefined

C7_Witness ==
  /\ pc = "settled" /\ outcome.kind = "thrown" /\ res.status = 500
  /\ outcome.name = "Error" /\ outcome.status = Num(500)
  /\ outcome.data = Obj(<< <<"error", Str("boom")>> >>)

\* ---------------------------------------------- properties of the catalog
\* the options the current operation passed to requestJson
PassedOpts == Api(call.op, call.id, call.payload).opts

RequestShape ==
  /\ req.method = (IF PassedOpts.method = Undefined THEN "GET" ELSE PassedOpts.method.s)
  /\ req.headers = << <<"Content-Type", "application/json">> >>

\* C8 as stated: the request uses the given method or GET, carries the JSON
\* content type, carries the serialized body whenever the caller supplies
\* one, and no body when none is supplied.
C8_AnySuppliedBodyIsSent ==
  call.op # "none" =>
    /\ RequestShape
    /\ req.body.def <=> PassedOpts.body # Undefined
    /\ req.body.def => req.body.text = Serialize(PassedOpts.body)

\* C8 amended: the request uses the given method or GET, carries the JSON
\* content type, carries the serialized body whenever the caller supplies a
\* truthy one, and no body when none is supplied or the one supplied is falsy
\* (null, 0, "", false).
C8_TruthyBodyIsSent ==
  call.op # "none" =>
    /\ RequestShape
    /\ req.body.def <=> PassedOpts.body \notin {Undefined, Null, NaN, Bool(FALSE), Num(0), Str("")}
    /\ req.body.def => req.body.text = Serialize(PassedOpts.body)

C8_Witness ==
  /\ call.op = "updateChallenge" /\ call.payload = LoginPayload
  /\ req.method = "PUT" /\ req.body.def

\* the interface catalog: method and path of each operation, "{}" standing
\* for the id or user name
Endpoint(method, path) == [method |-> method, path |-> path]
Catalog(op) ==
  CASE op = "register" -> Endpoint("POST", <<"/register">>)
    [] op = "login" -> Endpoint("POST", <<"/login">>)
    [] op = "getChallenges" -> Endpoint("GET", <<"/challenges">>)
    [] op = "getChallenge" -> Endpoint("GET", <<"/challenges/", "{}">>)
    [] op = "addChallenge" -> Endpoint("POST", <<"/add_challenge">>)
    [] op = "updateChallenge" -> Endpoint("PUT", <<"/challenges/", "{}">>)
    [] op = "deleteChallenge" -> Endpoint("DELETE", <<"/challenges/", "{}">>)
    [] op = "submit" -> Endpoint("POST", <<"/submit">>)
    [] op = "getSubmissions" -> Endpoint("GET", <<"/submissions/", "{}">>)
    [] op = "teacherListSubmissions" -> Endpoint("POST", <<"/teacher/submissions">>)
    [] op = "teacherUpdateSubmission" ->
         Endpoint("PUT", <<"/teacher/submissions/", "{}">>)
    [] op = "addTestCase" -> Endpoint("POST", <<"/challenges/", "{}", "/add_test_case">>)
    [] op = "deleteTestCase" -> Endpoint("DELETE", <<"/test_cases/", "{}">>)
    [] op = "addSolutionTemplate" ->
         Endpoint("POST", <<"/challenges/", "{}", "/add_solution_template">>)
    [] op = "deleteSolutionTemplate" -> Endpoint("DELETE", <<"/solution_templates/", "{}">>)
    [] op = "exportChallenge" -> Endpoint("GET", <<"/challenges/", "{}", "/export">>)
    [] op = "copyChallenge" -> Endpoint("POST", <<"/challenges/", "{}", "/copy">>)
    [] op = "importChallenge" -> Endpoint("POST", <<"/import_challenge">>)

Matches(path, template) ==
  /\ Len(path) = Len(template)
  /\ \A i \in 1..Len(path) : template[i] = "{}" \/ path[i] = template[i]

\* C9: every invocation of an api operation issues exactly one request, to
\* the method and path the catalog lists for it, and none after it whatever
\* the outcome.
C9_OneRequestPerOperation ==
  /\ nSent = nCalls
  /\ call.op # "none" =>
       /\ req.method = Catalog(call.op).method
       /\ Matches(req.path, Catalog(call.op).path)

C9_Witness ==
  /\ pc = "settled" /\ outcome.kind = "thrown" /\ outcome.name = "TypeError"
  /\ call.op = "copyChallenge" /\ req.path = <<"/challenges/", "7", "/copy">>
  /\ nCalls = 2 /\ nSent = 2
====
